---- MODULE Spec2Model ----
(***************************************************************************)
(* Verification model of folding/rewards/evaluation_registry.py:           *)
(* one verification pass of SyntheticMDEvaluator._evaluate (Spec), passes  *)
(* following each other on the directory of one submitter (SpecRepeat),    *)
(* the construction of EvaluationRegistry (SpecRegistry); of the device    *)
(* selection of folding/base/simulation.py (SpecDevices); and of           *)
(* folding_api/validator_registry.py (SpecValidators).                     *)
(*                                                                         *)
(* Energies are integers (kJ/mol).  A median of an even number of samples  *)
(* is a half-integer, so medians and the score are carried doubled         *)
(* (Median2, score2).  Percent differences are exact rationals carried as  *)
(* [num, den]; den = 0 stands for the float results inf (num > 0) and nan  *)
(* (num = 0) that numpy produces on a division by zero.                    *)
(*                                                                         *)
(* The physics engine (create_simulation, loadCheckpoint, loadState, step, *)
(* getState) and the file helpers of folding.utils.ops are external: each  *)
(* call either succeeds or raises, and the energies a replay produces are  *)
(* drawn from the family EnergyParams.                                     *)
(***************************************************************************)
EXTENDS Integers, Sequences, FiniteSets, TLC

VARIABLES
    pc,               \* position of the pass inside _evaluate / is_run_valid
    sub,              \* the data handed to _evaluate (md_output and its contents)
    disk,             \* files of miner_data_directory
    simulation,       \* self.simulation: the engine handle of the evaluator
    log_step,         \* self.log_step
    cpt_step,         \* self.cpt_step
    checkpoint_path,  \* self.checkpoint_path: which checkpoint file later stages load
    masses,           \* the two mass sequences compared by check_masses
    mass_report,      \* atom index logged by check_masses (0: none)
    state_energies,   \* energies of the state replay
    check_energies,   \* energies of the checkpoint replay (check log)
    miner_energies,   \* worker energies of the overlapping step range
    run,              \* the tuple returned by is_run_valid
    outcome,          \* how _evaluate ended: "running", "returned", "raised"
    score2,           \* twice the value returned by _evaluate
    failed,           \* the gate that ended the pass ("none" while passing)
    stages,           \* history: the stages executed so far, in order
    engine,           \* history: engines constructed, old-checkpoint loads, steps advanced
    repeat,           \* TRUE when further passes of the same submitter follow the first
    pass,             \* number of the pass on this miner_data_directory
    prev,             \* history: submission and result of the pass before
    oracle,           \* history: what the engine and the helpers answered, per call
    tasks,            \* EvaluationRegistry.tasks
    constructed,      \* how EvaluationRegistry() ended: "new", "constructed", "raised"
    stub,             \* the last evaluation by a directly constructed evaluator
    idle_gpus,        \* the devices get_idle_gpus would report now
    calls,            \* the calls of create_simulation in progress, per thread
    static_id,        \* the class attribute OpenMMSimulation.static_id
    stat,             \* tests/static_test.py: position of main() and Stat.static_id
    validators,       \* ValidatorRegistry.validators: uid -> Validator
    now,              \* time.time(), in seconds
    chosen,           \* what the call of get_available_axons just made returned
    last_update,      \* what the call of update_validators just made did
    fails,            \* history: consecutive failed responses per uid
    responded_at,     \* history: time of the last response recorded per uid (-1: none)
    fn,               \* the last call of check_gradient or compare_state_to_cpt by itself
    fpc,              \* position of forward(): "start", "loop", "after_loop", "raised"
    round,            \* number of the pass through `while True`
    iteration_num,    \* the loop variable of the hyperparameter search
    event,            \* the local event of forward()
    hps,              \* the local hps: the iteration that built it
    sampled_combination, \* the local sampled_combination: the iteration that sampled it
    protein,          \* the local protein: the iteration that constructed it
    logged,           \* the event log_event was last called with, and by which iteration
    hist              \* history: the search of the round, calls of run_step, rounds skipped

vars == <<pc, sub, disk, simulation, log_step, cpt_step, checkpoint_path, masses,
          mass_report, state_energies, check_energies, miner_energies, run,
          outcome, score2, failed, stages, engine, repeat, pass, prev, oracle,
          tasks, constructed, stub, idle_gpus, calls, static_id, stat, validators,
          now, chosen, last_update, fails, responded_at, fn, fpc, round, iteration_num, event, hps,
          sampled_combination, protein, logged, hist>>

passVars == <<pc, sub, disk, simulation, log_step, cpt_step, checkpoint_path, masses,
              mass_report, state_energies, check_energies, miner_energies, run,
              outcome, score2, failed, stages, engine, repeat, pass, prev, oracle>>
registryVars == <<tasks, constructed, stub>>
deviceVars == <<idle_gpus, calls, static_id, stat>>
validatorVars == <<validators, now, chosen, last_update, fails, responded_at>>
numericVars == <<fn>>
forwardVars == <<fpc, round, iteration_num, event, hps, sampled_combination, protein,
                 logged, hist>>

\* what a step of a pass leaves alone besides its own variables
Frame == UNCHANGED <<repeat, pass, prev, registryVars, deviceVars, validatorVars,
                     numericVars, forwardVars>>

(***************************************************************************)
(* Program constants                                                       *)
(***************************************************************************)
\* folding/utils/constants.py is not part of the sources; the values below
\* follow the scenarios of the specification.
MIN_LOGGING_ENTRIES == 50
MIN_SIMULATION_STEPS == 50
MAX_SIMULATION_STEPS_FOR_EVALUATION == 120
XML_CHECKPOINT_THRESHOLD == 5
ANOMALY_THRESHOLD == 2

WINDOW == 50
GRADIENT_THRESHOLD == 10
MAX_STRIDE == 10
REPORT_INTERVAL == 10
SCORE_TAIL == 10

(***************************************************************************)
(* Bounds of the model                                                     *)
(***************************************************************************)
MaxAtoms == 3
LogRows == 100
ShortLogRows == 20

Absent == -1
EmptyFile == -2

(***************************************************************************)
(* numpy helpers                                                           *)
(***************************************************************************)
Abs(x) == IF x < 0 THEN -x ELSE x

Min(a, b) == IF a <= b THEN a ELSE b

\* s[:n]
Head_(s, n) == SubSeq(s, 1, Min(n, Len(s)))

\* s[-n:]
Tail_(s, n) == IF Len(s) <= n THEN s ELSE SubSeq(s, Len(s) - n + 1, Len(s))

\* k-th smallest value of s (1-based), by selection as numpy's partition does
Kth(s, k) ==
    LET i == CHOOSE i \in DOMAIN s :
                 /\ Cardinality({j \in DOMAIN s : s[j] < s[i]}) < k
                 /\ k <= Cardinality({j \in DOMAIN s : s[j] <= s[i]})
    IN s[i]

\* 2 * np.median(s) of a non-empty integer sequence
Median2(s) ==
    LET n == Len(s)
    IN IF n % 2 = 1 THEN 2 * Kth(s, (n + 1) \div 2)
       ELSE Kth(s, n \div 2) + Kth(s, n \div 2 + 1)

RECURSIVE SumSeq(_)
SumSeq(s) == IF s = <<>> THEN 0 ELSE s[1] + SumSeq(Tail(s))

\* np.diff(s)
Diff(s) == IF Len(s) < 2 THEN <<>> ELSE [i \in 1..(Len(s) - 1) |-> s[i + 1] - s[i]]

\* len(np.unique(s))
Unique(s) == Cardinality({s[i] : i \in DOMAIN s})

(***************************************************************************)
(* Inputs: the submission and what the engine may answer                   *)
(***************************************************************************)
\* an energy series is base + slope per 10 integration steps
EnergyParams ==
    { [b |-> -500,  s |-> -2],    \* negative potential energy, settling
      [b |-> 191,   s |-> -2],    \* crosses zero between steps 950 and 960
      [b |-> 1520,  s |-> -2],    \* positive, settling
      [b |-> 1545,  s |-> -2],    \* the same within 2 percent
      [b |-> -1500, s |-> 20],    \* drifting upwards by 20 per sample
      [b |-> 500,   s |-> 0] }    \* frozen

Energy(ep, step) == ep.b + ep.s * (step \div 10)

\* the "Step" column of a progress log of n rows: first stride d1, then 10,
\* with one stride of 20 after row wideAt (0: none)
LogSteps(n, d1, wideAt) ==
    [i \in 1..n |-> 10 + (IF i >= 2 THEN d1 + 10 * (i - 2) ELSE 0)
                       + (IF wideAt # 0 /\ i > wideAt THEN 10 ELSE 0)]

LogEnergies(steps, ep) == [i \in DOMAIN steps |-> Energy(ep, steps[i])]

CptSteps == {850, 895, 900, 980}
OldCptSteps == {950, 960}
LeftoverOldStep == 850
FirstStrides == {10, 20}
OffsetStride == 5
WideAt == {0, 30, 95}

NoSub == [cpt |-> Absent, old |-> Absent, log |-> "absent", xml |-> "absent",
          steps |-> <<>>, energies |-> <<>>]

Submissions ==
    { [cpt |-> c, old |-> o, log |-> "data", xml |-> x,
       steps |-> LogSteps(n, d1, w), energies |-> LogEnergies(LogSteps(n, d1, w), ep)] :
         c \in {Absent, EmptyFile} \cup CptSteps, o \in {Absent} \cup OldCptSteps,
         x \in {"absent", "data"}, n \in {0, ShortLogRows, LogRows},
         d1 \in FirstStrides, w \in WideAt, ep \in EnergyParams }
    \cup
    { [cpt |-> c, old |-> o, log |-> l, xml |-> x, steps |-> <<>>, energies |-> <<>>] :
         c \in {Absent, EmptyFile, 900}, o \in {Absent, 950},
         l \in {"absent", "empty"}, x \in {"absent", "data"} }
    \cup
    \* logs whose rows lie between the multiples of 10: first stride 5, then 10
    { [cpt |-> c, old |-> Absent, log |-> "data", xml |-> "data",
       steps |-> LogSteps(LogRows, OffsetStride, 0),
       energies |-> LogEnergies(LogSteps(LogRows, OffsetStride, 0), ep)] :
         c \in {895, 900},
         ep \in {[b |-> 1520, s |-> -2], [b |-> -500, s |-> -2]} }

MassSeqs == UNION { [1..n -> {1, 12}] : n \in 1..MaxAtoms }

NoSim == [currentStep |-> Absent, loaded |-> "none"]
NoDisk == [cpt |-> Absent, old |-> Absent, log |-> "absent", xml |-> "absent",
           cfg |-> "absent", check_log |-> "absent", folded |-> "absent"]
NoEngine == [created |-> 0, oldLoads |-> 0, stepped |-> 0]
NoRun == [valid |-> FALSE, checked |-> <<>>, miner |-> <<>>, result |-> "none"]
NoPrev == [sub |-> NoSub, outcome |-> "none", run |-> NoRun, failed |-> "none", score2 |-> 0]
NoOracle == [process |-> <<>>, masses |-> <<>>, state |-> <<>>, cpt |-> <<>>, save |-> <<>>]

\* the directory of a submitter is basepath/hotkey[:8] for each of its
\* submissions; a later pass is checked on a resubmission of the same
\* artifacts, with or without the old checkpoint
RepeatSubmissions ==
    { d \in Submissions :
        /\ d.cpt \in {Absent, 900, 980} /\ d.old \in {Absent, 950}
        /\ d.log \in {"absent", "data"}
        /\ d.log = "data" =>
              /\ d.steps = LogSteps(LogRows, 10, 0)
              /\ d.energies[1] \in {Energy([b |-> 1520, s |-> -2], 10),
                                    Energy([b |-> -500, s |-> -2], 10)} }

Resubmissions(d) == {d, [d EXCEPT !.old = Absent]}

\* a deterministic engine: the same call on the same artifacts answers as it
\* did in the pass before; a call made for the first time is free
Answers(call, c) == oracle[call] = <<>> \/ oracle[call] = <<c>>
Record(call, c) == oracle' = IF repeat THEN [oracle EXCEPT ![call] = <<c>>] ELSE oracle

(***************************************************************************)
(* process_md_output                                                       *)
(***************************************************************************)
\* md_output has no key at all
IsEmptyOutput(d) ==
    d.cpt = Absent /\ d.old = Absent /\ d.log = "absent" /\ d.xml = "absent"

\* the extensions of all files, empty ones included
MdOutputsExtsAll(d) ==
    (IF d.cpt # Absent \/ d.old # Absent THEN {"cpt"} ELSE {})
      \cup (IF d.log # "absent" THEN {"log"} ELSE {})
      \cup (IF d.xml # "absent" THEN {"xml"} ELSE {})

\* self.md_outputs_exts: the extensions of the files with non-empty content
MdOutputsExts(d) ==
    (IF d.cpt >= 0 \/ d.old >= 0 THEN {"cpt"} ELSE {})
      \cup (IF d.log = "data" THEN {"log"} ELSE {})
      \cup (IF d.xml = "data" THEN {"xml"} ELSE {})

\* save_files: every file of md_output is written into miner_data_directory
SaveFiles(d, dsk) ==
    [dsk EXCEPT !.cpt = IF d.cpt # Absent THEN d.cpt ELSE @,
                !.old = IF d.old # Absent THEN d.old ELSE @,
                !.log = IF d.log # "absent" THEN d.log ELSE @,
                !.xml = IF d.xml # "absent" THEN (IF d.xml = "data" THEN "miner" ELSE "empty")
                        ELSE @]

\* a stage that goes on with the engine of the stage before it
CreateSimulationReused(eng) == IF eng.created = 0 THEN [eng EXCEPT !.created = 1] ELSE eng

\* md_simulator.create_simulation: one more engine has been constructed
CreateSimulation(eng) == [eng EXCEPT !.created = @ + 1]

\* Simulation.loadCheckpoint: the handle takes the step of the checkpoint
LoadCheckpoint(sim, step, name) == [sim EXCEPT !.currentStep = step, !.loaded = name]

\* the lag test with <= in place of <
TooFewStepsLeq(logStep, sim) == (logStep - sim.currentStep) <= MIN_SIMULATION_STEPS

\* the lag test of the freshness gate
TooFewSteps(logStep, sim) == (logStep - sim.currentStep) < MIN_SIMULATION_STEPS

\* a saveState that leaves an existing state file alone
SaveStateKeep(dsk) == IF dsk.xml = "absent" THEN [dsk EXCEPT !.xml = "validator"] ELSE dsk

\* line 105: self.simulation.saveState(self.state_xml_path) writes the state of
\* the handle, whatever file of that name save_files had put there
SaveState(dsk) == [dsk EXCEPT !.xml = "validator"]

\* the state file a replay loads: the validator's own, or one of the worker
XmlSource(dsk) == IF dsk.xml = "validator" THEN "xml" ELSE "miner_xml"

\* a write of the system config that demands a new file (exclusive creation)
ConfigWriteFailsExisting(dsk, fault) == fault = "write_pkl" \/ dsk.cfg # "absent"

\* lines 108-114: write_pkl is called only `if not os.path.exists(...)`
ConfigWriteFails(dsk, fault) == fault = "write_pkl" /\ dsk.cfg = "absent"

\* self.checkpoint_path left at the path of the submitted checkpoint
PResultSubmittedPath(ok, raised, why, dsk, sim, ls, cs, path, eng, st) ==
    [ok |-> ok, raised |-> raised, failed |-> why, disk |-> dsk, simulation |-> sim,
     log_step |-> ls, cpt_step |-> cs,
     checkpoint_path |-> IF path = "none" THEN "none" ELSE "cpt", engine |-> eng,
     stages |-> st]

PResult(ok, raised, why, dsk, sim, ls, cs, path, eng, st) ==
    [ok |-> ok, raised |-> raised, failed |-> why, disk |-> dsk, simulation |-> sim,
     log_step |-> ls, cpt_step |-> cs, checkpoint_path |-> path, engine |-> eng,
     stages |-> st]

\* the tail of process_md_output, from the freshness gate on
ProcessFreshness(d, dsk, sim, eng, fault) ==
    LET ls  == d.steps[Len(d.steps)]
        st  == <<"intake", "freshness">>
        end(sim2, path, eng2) ==
            IF fault = "saveState"
            THEN PResult(FALSE, FALSE, "error", dsk, sim2, ls, sim2.currentStep, path, eng2, st)
            ELSE LET dsk2 == SaveState(dsk)
                 IN IF ConfigWriteFails(dsk, fault)
                    THEN PResult(FALSE, FALSE, "error", dsk2, sim2, ls, sim2.currentStep,
                                 path, eng2, st)
                    ELSE PResult(TRUE, FALSE, "none", [dsk2 EXCEPT !.cfg = "validator"],
                                 sim2, ls, sim2.currentStep, path, eng2, st)
    IN IF TooFewSteps(ls, sim)
       THEN IF dsk.old # Absent
            THEN IF dsk.old < 0 \/ fault = "loadCheckpoint_old"
                 THEN PResult(FALSE, FALSE, "error", dsk, sim, ls, Absent, "none", eng, st)
                 ELSE LET sim2 == LoadCheckpoint(sim, dsk.old, "old")
                          eng2 == [eng EXCEPT !.oldLoads = @ + 1]
                      IN IF TooFewSteps(ls, sim2)
                         THEN PResult(FALSE, FALSE, "insufficient-progress", dsk, sim2, ls,
                                      Absent, "none", eng2, st)
                         ELSE end(sim2, "old", eng2)
            ELSE PResult(FALSE, FALSE, "insufficient-progress", dsk, sim, ls, Absent,
                         "none", eng, st)
       ELSE end(sim, "cpt", eng)

ProcessMdOutput(d, dsk0, fault) ==
    LET st == <<"intake">>
        rej(why, dsk, sim, eng) ==
            PResult(FALSE, FALSE, why, dsk, sim, Absent, Absent, "none", eng, st)
    IN IF IsEmptyOutput(d) THEN rej("empty", dsk0, NoSim, NoEngine)
       ELSE IF ~({"cpt", "log"} \subseteq MdOutputsExts(d))
       THEN rej("missing-files", dsk0, NoSim, NoEngine)
       ELSE IF fault = "save_files"
       THEN PResult(FALSE, TRUE, "error", dsk0, NoSim, Absent, Absent, "none", NoEngine, st)
       ELSE LET dsk == SaveFiles(d, dsk0)
                eng == CreateSimulation(NoEngine)
            IN IF fault = "create_simulation" THEN rej("error", dsk, NoSim, NoEngine)
               ELSE IF dsk.cpt < 0 \/ fault = "loadCheckpoint"
               THEN rej("error", dsk, NoSim, eng)
               ELSE LET sim == LoadCheckpoint(NoSim, dsk.cpt, "cpt")
                    IN IF fault = "read_csv" \/ Len(d.steps) = 0
                       THEN rej("error", dsk, sim, eng)
                       ELSE IF Len(d.steps) < MIN_LOGGING_ENTRIES
                       THEN PResult(FALSE, FALSE, "insufficient-logging", dsk, sim,
                                    d.steps[Len(d.steps)], Absent, "none", eng, st)
                       ELSE ProcessFreshness(d, dsk, sim, eng, fault)

ProcessFaults == {"none", "save_files", "create_simulation", "loadCheckpoint", "read_csv",
                  "loadCheckpoint_old", "saveState", "write_pkl"}

(***************************************************************************)
(* check_masses, check_gradient, compare_state_to_cpt, the anomaly test    *)
(***************************************************************************)
ValidatorMasses == { <<12, 1, 1>>, <<12, 1>> }

\* check_masses that logs the mismatch and goes on without `return False`
CheckMassesNoReturn(v, m) ==
    LET n   == IF Len(v) <= Len(m) THEN Len(v) ELSE Len(m)
        bad == {i \in 1..n : v[i] # m[i]}
    IN IF bad = {} THEN [ok |-> TRUE, atom |-> -1]
       ELSE [ok |-> TRUE, atom |-> (CHOOSE i \in bad : \A j \in bad : i >= j) - 1]

\* zip(validator_masses, miner_masses): the pairs up to the shorter length;
\* atom is the 0-based index of the logged mismatch, -1 when none is logged
CheckMasses(v, m) ==
    LET n   == Min(Len(v), Len(m))
        bad == {i \in 1..n : v[i] # m[i]}
    IN IF bad = {} THEN [ok |-> TRUE, atom |-> -1]
       ELSE [ok |-> FALSE, atom |-> (CHOOSE i \in bad : \A j \in bad : i <= j) - 1]

\* check_gradient with < in place of <=
CheckGradientStrict(e) ==
    LET d == Diff(Head_(e, WINDOW))
    IN IF Len(d) = 0 THEN FALSE
       ELSE SumSeq(d) < GRADIENT_THRESHOLD * Len(d)

\* np.diff(e[:WINDOW]).mean() <= GRADIENT_THRESHOLD; the mean of no difference is nan
CheckGradient(e) ==
    LET d == Diff(Head_(e, WINDOW))
    IN IF Len(d) = 0 THEN FALSE
       ELSE SumSeq(d) <= GRADIENT_THRESHOLD * Len(d)

\* abs((a - b) / b) * 100 as an exact fraction; den = 0 is inf (num > 0) or nan (num = 0)
PercentDiff(a, b) == [num |-> 100 * Abs(a - b), den |-> Abs(b)]

IsNan(p) == p.den = 0 /\ p.num = 0

\* p > t as floats compare: false for nan, true for inf
Exceeds(p, t) == ~IsNan(p) /\ p.num > t * p.den

\* compare_state_to_cpt with >= in place of >
CompareStateToCptGeq(se, ce) ==
    IF se = <<>> \/ ce = <<>> THEN TRUE
    ELSE LET p == PercentDiff(Median2(Head_(se, WINDOW)), Median2(Head_(ce, WINDOW)))
         IN ~(~IsNan(p) /\ p.num >= XML_CHECKPOINT_THRESHOLD * p.den)

\* the median of an empty array is nan, and so is then percent_diff
CompareStateToCpt(se, ce) ==
    IF se = <<>> \/ ce = <<>> THEN TRUE
    ELSE LET state_median2      == Median2(Head_(se, WINDOW))
             checkpoint_median2 == Median2(Head_(ce, WINDOW))
         IN ~Exceeds(PercentDiff(state_median2, checkpoint_median2),
                     XML_CHECKPOINT_THRESHOLD)

\* numpy broadcasting of two 1-d arrays
Broadcastable(ce, me) == Len(ce) = Len(me) \/ Len(me) = 1 \/ Len(ce) = 1

PercentDiffs(ce, me) ==
    LET n == IF Len(ce) = 1 THEN Len(me) ELSE Len(ce)
    IN [i \in 1..n |-> PercentDiff(IF Len(ce) = 1 THEN ce[1] ELSE ce[i],
                                    IF Len(me) = 1 THEN me[1] ELSE me[i])]

FracLeq(p, q) == p.num * q.den <= q.num * p.den

KthFrac(ps, k) ==
    LET i == CHOOSE i \in DOMAIN ps :
                 /\ Cardinality({j \in DOMAIN ps : ~FracLeq(ps[i], ps[j])}) < k
                 /\ k <= Cardinality({j \in DOMAIN ps : FracLeq(ps[j], ps[i])})
    IN ps[i]

\* np.median(percent_diff) > t
MedianExceeds(ps, t) ==
    LET n == Len(ps)
    IN IF n = 0 \/ \E i \in DOMAIN ps : IsNan(ps[i]) THEN FALSE
       ELSE IF n % 2 = 1 THEN Exceeds(KthFrac(ps, (n + 1) \div 2), t)
       ELSE LET x == KthFrac(ps, n \div 2)
                y == KthFrac(ps, n \div 2 + 1)
            IN IF x.den = 0 \/ y.den = 0 THEN TRUE
               ELSE x.num * y.den + y.num * x.den > 2 * t * x.den * y.den

\* `raise "<text>"`: a str is no exception, so Python raises a TypeError, and
\* str(E) in the handler is the text of that TypeError
RaiseStr(text) == "exceptions must derive from BaseException"

\* str(E) of an exception raised by the engine, pandas or numpy inside the try
ErrorStr(what) == what

StepsToRun(logStep, cptStep) == Min(MAX_SIMULATION_STEPS_FOR_EVALUATION, logStep - cptStep)

\* the steps at which StateDataReporter(interval 10) writes a row while the
\* engine advances n steps from step c
ReportSteps(c, n) == {r \in (c + 1)..(c + n) : r % REPORT_INTERVAL = 0}

SetToSeq(S) == [i \in 1..Cardinality(S) |->
                   CHOOSE x \in S : Cardinality({y \in S : y < x}) = i - 1]

\* log_file[(Step > cpt_step) & (Step <= max_step)]["Potential Energy"]
MinerEnergies(d, c, maxStep) ==
    LET rows == {i \in DOMAIN d.steps : d.steps[i] > c /\ d.steps[i] <= maxStep}
        idx  == SetToSeq(rows)
    IN [k \in DOMAIN idx |-> d.energies[idx[k]]]

\* _evaluate returning the median of the worker-reported energies
Score2OfMiner(r) == IF ~r.valid THEN 0 ELSE Median2(Tail_(r.miner, SCORE_TAIL))

\* _evaluate returning the magnitude of the median
Score2Abs(r) == IF ~r.valid THEN 0 ELSE Abs(Median2(Tail_(r.checked, SCORE_TAIL)))

\* the value _evaluate returns (doubled): 0.0 for an invalid run,
\* np.median(checked_energies[-10:]) otherwise
Score2(r) == IF ~r.valid THEN 0 ELSE Median2(Tail_(r.checked, SCORE_TAIL))

(***************************************************************************)
(* EvaluationRegistry and the stub evaluators                              *)
(***************************************************************************)
\* line 348: the evaluator classes in the order of the list
evaluation_pipelines ==
    <<"SyntheticMDEvaluator", "OrganicMDEvaluator", "SyntheticMLEvaluator",
      "OrganicMLEvaluator">>

\* name() of each class
Name(pipe) ==
    CASE pipe = "SyntheticMDEvaluator" -> "SyntheticMDReward"
      [] pipe = "OrganicMDEvaluator"   -> "OrganicMDReward"
      [] pipe = "SyntheticMLEvaluator" -> "SyntheticMLReward"
      [] pipe = "OrganicMLEvaluator"   -> "OrganicMLReward"

\* the parameters of __init__ without a default value
RequiredArgs(pipe) == IF pipe = "SyntheticMDEvaluator" THEN {"pdb_id"} ELSE {}

\* calling the class: a missing required argument is a TypeError
Constructs(pipe, args) == RequiredArgs(pipe) \subseteq args

\* lines 350-352: the loop `self.tasks.append(pipe().name())` from pipeline i
\* on; the first constructor that raises ends __init__
RECURSIVE BuildTasks(_, _)
BuildTasks(i, acc) ==
    IF i > Len(evaluation_pipelines) THEN [ok |-> TRUE, tasks |-> acc]
    ELSE IF ~Constructs(evaluation_pipelines[i], {}) THEN [ok |-> FALSE, tasks |-> acc]
    ELSE BuildTasks(i + 1, Append(acc, Name(evaluation_pipelines[i])))

NoStub == [pipe |-> "none", name |-> "none", data |-> NoSub, score2 |-> 0]

(***************************************************************************)
(* Device selection of OpenMMSimulation.create_simulation                  *)
(***************************************************************************)
NumGpus == 3
Threads == {"t1", "t2"}
POOL == 4
STAT_POOL == 8
NoCall == [pc |-> "idle", deviceIndex |-> -1, error |-> "none"]

\* first_number(get_idle_gpus()): the lowest idle index, -1 when none is idle
first_number(idle) == IF idle = {} THEN -1 ELSE CHOOSE i \in idle : \A j \in idle : i <= j

(***************************************************************************)
(* folding_api/validator_registry.py                                       *)
(***************************************************************************)
MaxTime == 6
MaxFails == 10
MaxK == 2
Uids == {3, 8}
Codes == {200, 500}
max_retries == 4
SLEEP == 5
TIMEOUT_CAP == 86400
TIMEOUT_FACTOR == 4

NoChoice == [from |-> -1, k |-> 0, at |-> -1, polls |-> 0, found |-> {}, axons |-> <<>>,
             result |-> "nocall"]
NoUpdate == [uid |-> -1, code |-> -1, at |-> -1, before |-> -1, after |-> -1,
             returned |-> "nocall"]

NoFn == [op |-> "none", a |-> <<>>, b |-> <<>>, result |-> FALSE]

(***************************************************************************)
(* folding/validators/forward.py                                           *)
(***************************************************************************)
MaxRounds == 2
TOTAL_COMBINATIONS == 3

\* what an iteration of the search binds (sampled_combination, protein, hps)
\* is identified by <<round, iteration_num>>; Unbound is a local name of
\* forward() that no statement has assigned yet
Unbound == <<0, 0>>
NoEvent == [status |-> "unset", hps |-> Unbound, pdb_id |-> 0]
NoLogged == [by |-> Unbound, event |-> NoEvent]
NoHist == [tried |-> {}, failed |-> {}, success |-> Unbound, queried |-> {},
           skipped |-> {}, error |-> "none"]

\* after construction: no evaluator registry, no call of create_simulation, and
\* the validators as ValidatorRegistry.__init__ makes them
ServicesInit ==
    /\ tasks = <<>>
    /\ constructed = "new"
    /\ stub = NoStub
    /\ idle_gpus = {}
    /\ calls = [t \in Threads |-> NoCall]
    /\ static_id = 0
    /\ stat = [pc |-> "main", static_id |-> 0]
    /\ validators = [u \in Uids |-> [timeout |-> 1, available_at |-> 0]]
    /\ now = 0
    /\ chosen = NoChoice
    /\ last_update = NoUpdate
    /\ fails = [u \in Uids |-> 0]
    /\ responded_at = [u \in Uids |-> -1]
    /\ fn = NoFn
    /\ fpc = "start"
    /\ round = 1
    /\ iteration_num = 0
    /\ event = NoEvent
    /\ hps = Unbound
    /\ sampled_combination = Unbound
    /\ protein = Unbound
    /\ logged = NoLogged
    /\ hist = NoHist

(***************************************************************************)
(* The verification pass                                                   *)
(***************************************************************************)
NoMasses == [validator |-> <<>>, miner |-> <<>>]

Init ==
    /\ pc = "start"
    /\ sub = NoSub
    /\ disk \in {NoDisk, [NoDisk EXCEPT !.old = LeftoverOldStep]}
    /\ simulation = NoSim
    /\ log_step = Absent
    /\ cpt_step = Absent
    /\ checkpoint_path = "none"
    /\ masses = NoMasses
    /\ mass_report = -1
    /\ state_energies = <<>>
    /\ check_energies = <<>>
    /\ miner_energies = <<>>
    /\ run = NoRun
    /\ outcome = "running"
    /\ score2 = 0
    /\ failed = "none"
    /\ stages = <<>>
    /\ engine = NoEngine
    /\ repeat = FALSE
    /\ pass = 1
    /\ prev = NoPrev
    /\ oracle = NoOracle
    /\ ServicesInit

\* `return 0.0` of _evaluate before is_run_valid was called
ReturnZero(why) ==
    /\ pc' = "done"
    /\ outcome' = "returned"
    /\ score2' = 0
    /\ failed' = why
    /\ run' = run

\* an exception leaves _evaluate
Propagate ==
    /\ pc' = "done"
    /\ outcome' = "raised"
    /\ score2' = score2
    /\ failed' = "error"
    /\ run' = run

\* is_run_valid returns the tuple r and _evaluate returns on it
ReturnRun(r, why) ==
    /\ pc' = "done"
    /\ outcome' = "returned"
    /\ run' = r
    /\ score2' = Score2(r)
    /\ failed' = why

\* an except branch that hands back the trajectories read so far
InvalidWithEnergies(reason) ==
    [valid |-> FALSE, checked |-> check_energies, miner |-> miner_energies, result |-> reason]

\* the except branch of is_run_valid
Invalid(reason) == [valid |-> FALSE, checked |-> <<>>, miner |-> <<>>, result |-> reason]

Continue(next) ==
    /\ pc' = next
    /\ UNCHANGED <<outcome, score2, failed, run>>

\* the submissions a pass may be handed
Offered ==
    IF pass > 1 THEN Resubmissions(prev.sub)
    ELSE IF repeat THEN RepeatSubmissions ELSE Submissions

\* _evaluate, line 282: process_md_output(**data)
ProcessStep ==
    /\ pc = "start"
    /\ \E d \in Offered, fault \in ProcessFaults :
         LET r == ProcessMdOutput(d, disk, fault)
         IN /\ Answers("process", fault)
            /\ Record("process", fault)
            /\ sub' = d
            /\ disk' = r.disk
            /\ simulation' = r.simulation
            /\ log_step' = r.log_step
            /\ cpt_step' = r.cpt_step
            /\ checkpoint_path' = r.checkpoint_path
            /\ engine' = r.engine
            /\ stages' = r.stages
            /\ IF r.raised THEN Propagate
               ELSE IF ~r.ok THEN ReturnZero(r.failed)
               ELSE Continue("masses")
    /\ UNCHANGED <<masses, mass_report, state_energies, check_energies, miner_energies>>
    /\ Frame

\* _evaluate, line 285: check_masses
MassStep ==
    /\ pc = "masses"
    /\ stages' = Append(stages, "masses")
    /\ \E v \in ValidatorMasses, m \in MassSeqs, fault \in {"none", "load_pkl", "create_velm"} :
         /\ Answers("masses", <<v, m, fault>>)
         /\ Record("masses", <<v, m, fault>>)
         /\ IF fault # "none"
            THEN /\ Propagate
                 /\ UNCHANGED <<masses, mass_report>>
            ELSE LET r == CheckMasses(v, m)
                 IN /\ masses' = [validator |-> v, miner |-> m]
                    /\ mass_report' = r.atom
                    /\ IF r.ok THEN Continue("stride") ELSE ReturnZero("mass-mismatch")
    /\ UNCHANGED <<sub, disk, simulation, log_step, cpt_step, checkpoint_path,
                   state_energies, check_energies, miner_energies, engine>>
    /\ Frame

\* the resolution test with its operands exchanged
StrideTooWideSwapped(steps) == (steps[1] - steps[2]) > MAX_STRIDE

\* the resolution test of _evaluate, line 289
StrideTooWide(steps) == (steps[2] - steps[1]) > MAX_STRIDE

\* _evaluate, lines 288-290; the locals of check_masses are gone by now
StrideStep ==
    /\ pc = "stride"
    /\ stages' = Append(stages, "stride")
    /\ masses' = NoMasses
    /\ IF Len(sub.steps) < 2 THEN Propagate
       ELSE IF StrideTooWide(sub.steps) THEN ReturnZero("low-resolution-log")
       ELSE Continue("state_replay")
    /\ UNCHANGED <<sub, disk, simulation, log_step, cpt_step, checkpoint_path, mass_report,
                   state_energies, check_energies, miner_energies, engine, oracle>>
    /\ Frame

\* is_run_valid, lines 192-206: the replay from the state file, outside the try
StateReplayStep ==
    /\ pc = "state_replay"
    /\ stages' = Append(stages, "state_replay")
    /\ LET steps_to_run == StepsToRun(log_step, cpt_step)
           n == steps_to_run \div 10
       IN \E fault \in {"none", "create_simulation", "loadState", "step"}, ep \in EnergyParams :
            Answers("state", <<fault, ep>>) /\ Record("state", <<fault, ep>>) /\
            IF fault = "create_simulation"
            THEN /\ Propagate
                 /\ UNCHANGED <<simulation, state_energies, engine>>
            ELSE IF fault = "loadState" \/ disk.xml \notin {"validator", "miner"}
            THEN /\ Propagate
                 /\ simulation' = NoSim
                 /\ engine' = CreateSimulation(engine)
                 /\ UNCHANGED state_energies
            ELSE IF fault = "step" /\ n > 0
            THEN /\ Propagate
                 /\ simulation' = [currentStep |-> cpt_step, loaded |-> XmlSource(disk)]
                 /\ engine' = CreateSimulation(engine)
                 /\ UNCHANGED state_energies
            ELSE /\ Continue("state_gradient")
                 /\ simulation' = [currentStep |-> cpt_step + 10 * n, loaded |-> XmlSource(disk)]
                 /\ engine' = [CreateSimulation(engine) EXCEPT !.stepped = @ + 10 * n]
                 /\ state_energies' = [j \in 1..n |-> Energy(ep, cpt_step + 10 * j)]
    /\ UNCHANGED <<sub, disk, log_step, cpt_step, checkpoint_path, masses, mass_report,
                   check_energies, miner_energies>>
    /\ Frame

\* is_run_valid, lines 209-213
StateGradientStep ==
    /\ pc = "state_gradient"
    /\ stages' = Append(stages, "state_gradient")
    /\ IF ~CheckGradient(state_energies)
       THEN ReturnRun(Invalid(RaiseStr("state-gradient")), "state-gradient")
       ELSE Continue("cpt_replay")
    /\ UNCHANGED <<sub, disk, simulation, log_step, cpt_step, checkpoint_path, masses,
                   mass_report, state_energies, check_energies, miner_energies, engine,
                   oracle>>
    /\ Frame

\* is_run_valid, lines 216-243: the replay from the checkpoint, inside the try
CptReplayStep ==
    /\ pc = "cpt_replay"
    /\ stages' = Append(stages, "cpt_replay")
    /\ LET steps_to_run == StepsToRun(log_step, cpt_step)
           max_step == cpt_step + steps_to_run
           from == disk[checkpoint_path]
           reports == SetToSeq(ReportSteps(from, steps_to_run))
       IN \E fault \in {"none", "create_simulation", "loadCheckpoint", "step", "read_csv"},
             ep \in EnergyParams :
            Answers("cpt", <<fault, ep>>) /\ Record("cpt", <<fault, ep>>) /\
            IF fault = "create_simulation"
            THEN /\ ReturnRun(Invalid(ErrorStr("engine-error")), "error")
                 /\ UNCHANGED <<simulation, disk, check_energies, miner_energies, engine>>
            ELSE IF fault = "loadCheckpoint"
            THEN /\ ReturnRun(Invalid(ErrorStr("engine-error")), "error")
                 /\ simulation' = NoSim
                 /\ engine' = CreateSimulation(engine)
                 /\ UNCHANGED <<disk, check_energies, miner_energies>>
            ELSE IF fault = "step"
            THEN /\ ReturnRun(Invalid(ErrorStr("engine-error")), "error")
                 /\ simulation' = [currentStep |-> from, loaded |-> checkpoint_path]
                 /\ engine' = CreateSimulation(engine)
                 /\ miner_energies' = MinerEnergies(sub, cpt_step, max_step)
                 /\ disk' = [disk EXCEPT !.check_log = "validator"]
                 /\ UNCHANGED check_energies
            ELSE /\ simulation' = [currentStep |-> from + steps_to_run,
                                   loaded |-> checkpoint_path]
                 /\ engine' = [CreateSimulation(engine) EXCEPT !.stepped = @ + steps_to_run]
                 /\ miner_energies' = MinerEnergies(sub, cpt_step, max_step)
                 /\ disk' = [disk EXCEPT !.check_log = "validator"]
                 /\ IF fault = "read_csv"
                    THEN /\ ReturnRun(Invalid(ErrorStr("io-error")), "error")
                         /\ UNCHANGED check_energies
                    ELSE /\ check_energies' = [k \in DOMAIN reports |-> Energy(ep, reports[k])]
                         /\ Continue("identical")
    /\ UNCHANGED <<sub, log_step, cpt_step, checkpoint_path, masses, mass_report,
                   state_energies>>
    /\ Frame

StageFrame ==
    /\ UNCHANGED <<sub, disk, simulation, log_step, cpt_step, checkpoint_path, masses,
                   mass_report, state_energies, check_energies, miner_energies, engine,
                   oracle>>
    /\ Frame

\* is_run_valid, lines 245-247
IdenticalStep ==
    /\ pc = "identical"
    /\ stages' = Append(stages, "identical")
    /\ IF Unique(check_energies) = 1
       THEN ReturnRun(Invalid(RaiseStr("reprod-energies-identical")),
                      "reproduction-energies-identical")
       ELSE Continue("cpt_gradient")
    /\ StageFrame

\* is_run_valid, lines 249-251
CptGradientStep ==
    /\ pc = "cpt_gradient"
    /\ stages' = Append(stages, "cpt_gradient")
    /\ IF ~CheckGradient(check_energies)
       THEN ReturnRun(Invalid(RaiseStr("cpt-gradient")), "checkpoint-gradient")
       ELSE Continue("state_cpt")
    /\ StageFrame

\* is_run_valid, lines 253-257
StateCptStep ==
    /\ pc = "state_cpt"
    /\ stages' = Append(stages, "state_cpt")
    /\ IF ~CompareStateToCpt(state_energies, check_energies)
       THEN ReturnRun(Invalid(RaiseStr("state-checkpoint")), "state-checkpoint-mismatch")
       ELSE Continue("anomaly")
    /\ StageFrame

\* is_run_valid, lines 259-264
AnomalyStep ==
    /\ pc = "anomaly"
    /\ stages' = Append(stages, "anomaly")
    /\ IF ~Broadcastable(check_energies, miner_energies)
       THEN ReturnRun(Invalid(ErrorStr("operands could not be broadcast together")), "error")
       ELSE IF MedianExceeds(PercentDiffs(check_energies, miner_energies), ANOMALY_THRESHOLD)
       THEN ReturnRun(Invalid(RaiseStr("anomaly")), "anomaly")
       ELSE Continue("save")
    /\ StageFrame

\* is_run_valid, lines 266-279, and the return of _evaluate, lines 293-296
SaveStep ==
    /\ pc = "save"
    /\ stages' = Append(stages, "save")
    /\ \E fault \in {"none", "save_pdb"} :
         /\ Answers("save", fault)
         /\ Record("save", fault)
         /\ IF fault = "save_pdb"
            THEN /\ ReturnRun(Invalid(ErrorStr("io-error")), "error")
                 /\ UNCHANGED disk
            ELSE /\ ReturnRun([valid |-> TRUE, checked |-> check_energies,
                               miner |-> miner_energies, result |-> "valid"], "none")
                 /\ disk' = [disk EXCEPT !.folded = "validator"]
    /\ UNCHANGED <<sub, simulation, log_step, cpt_step, checkpoint_path, masses,
                   mass_report, state_energies, check_energies, miner_energies, engine>>
    /\ Frame

Next ==
    \/ ProcessStep
    \/ MassStep
    \/ StrideStep
    \/ StateReplayStep
    \/ StateGradientStep
    \/ CptReplayStep
    \/ IdenticalStep
    \/ CptGradientStep
    \/ StateCptStep
    \/ AnomalyStep
    \/ SaveStep

Spec == Init /\ [][Next]_vars

(***************************************************************************)
(* Several passes on the directory of one submitter                        *)
(***************************************************************************)
MaxPasses == 2

InitRepeat ==
    /\ pc = "start"
    /\ sub = NoSub
    /\ disk = NoDisk
    /\ simulation = NoSim
    /\ log_step = Absent
    /\ cpt_step = Absent
    /\ checkpoint_path = "none"
    /\ masses = NoMasses
    /\ mass_report = -1
    /\ state_energies = <<>>
    /\ check_energies = <<>>
    /\ miner_energies = <<>>
    /\ run = NoRun
    /\ outcome = "running"
    /\ score2 = 0
    /\ failed = "none"
    /\ stages = <<>>
    /\ engine = NoEngine
    /\ repeat = TRUE
    /\ pass = 1
    /\ prev = NoPrev
    /\ oracle = NoOracle
    /\ ServicesInit

\* a new evaluator is constructed for the next submission of the same hotkey:
\* its attributes start afresh, the files of miner_data_directory remain
NewPass ==
    /\ repeat /\ pc = "done" /\ pass < MaxPasses
    /\ pass' = pass + 1
    /\ prev' = [sub |-> sub, outcome |-> outcome, run |-> run, failed |-> failed,
                score2 |-> score2]
    /\ pc' = "start"
    /\ sub' = NoSub
    /\ simulation' = NoSim
    /\ log_step' = Absent
    /\ cpt_step' = Absent
    /\ checkpoint_path' = "none"
    /\ masses' = NoMasses
    /\ mass_report' = -1
    /\ state_energies' = <<>>
    /\ check_energies' = <<>>
    /\ miner_energies' = <<>>
    /\ run' = NoRun
    /\ outcome' = "running"
    /\ score2' = 0
    /\ failed' = "none"
    /\ stages' = <<>>
    /\ engine' = NoEngine
    /\ UNCHANGED <<disk, repeat, oracle, registryVars, deviceVars, validatorVars,
                   numericVars, forwardVars>>

NextRepeat ==
    \/ ProcessStep
    \/ MassStep
    \/ StrideStep
    \/ StateReplayStep
    \/ StateGradientStep
    \/ CptReplayStep
    \/ IdenticalStep
    \/ CptGradientStep
    \/ StateCptStep
    \/ AnomalyStep
    \/ SaveStep
    \/ NewPass

SpecRepeat == InitRepeat /\ [][NextRepeat]_vars

(***************************************************************************)
(* EvaluationRegistry(): construction, and the evaluators used directly    *)
(***************************************************************************)
\* EvaluationRegistry.__init__, lines 347-352
ConstructRegistry ==
    /\ constructed = "new"
    /\ LET r == BuildTasks(1, <<>>)
       IN /\ tasks' = r.tasks
          /\ constructed' = IF r.ok THEN "constructed" ELSE "raised"
    /\ UNCHANGED <<stub, passVars, numericVars, forwardVars, deviceVars, validatorVars>>

\* _evaluate of the three stub classes: `return 0.0`
StubScore2(pipe, d) == 0

\* an evaluator other than the synthetic-MD one is constructed without
\* arguments and evaluates a submission
StubEvaluate ==
    /\ \E i \in 2..Len(evaluation_pipelines), d \in RepeatSubmissions :
         LET pipe == evaluation_pipelines[i]
         IN /\ Constructs(pipe, {})
            /\ stub' = [pipe |-> pipe, name |-> Name(pipe), data |-> d,
                        score2 |-> StubScore2(pipe, d)]
    /\ UNCHANGED <<tasks, constructed, passVars, numericVars, forwardVars, deviceVars,
                   validatorVars>>

NextRegistry ==
    \/ ConstructRegistry
    \/ StubEvaluate

SpecRegistry == Init /\ [][NextRegistry]_vars

(***************************************************************************)
(* Two threads inside create_simulation, lines 157-173                     *)
(***************************************************************************)
\* memory is allocated or freed on some device: get_idle_gpus reports the
\* devices whose used fraction is below the threshold
UsageChanges ==
    /\ \E g \in SUBSET (0..(NumGpus - 1)) : g # idle_gpus /\ idle_gpus' = g
    /\ UNCHANGED <<calls, static_id, stat, passVars, numericVars, forwardVars,
                   registryVars, validatorVars>>

\* lines 157-162: the idle device with the lowest index; with none idle the
\* local name static_id is read before its assignment (UnboundLocalError),
\* and the class attribute of the same name is neither read nor assigned
PickDevice(t) ==
    /\ calls[t].pc = "idle"
    /\ LET d == first_number(idle_gpus)
       IN calls' = [calls EXCEPT ![t] =
                      IF d = -1
                      THEN [pc |-> "raised", deviceIndex |-> -1, error |-> "UnboundLocalError"]
                      ELSE [pc |-> "picked", deviceIndex |-> d, error |-> "none"]]
    /\ UNCHANGED <<idle_gpus, static_id, stat, passVars, numericVars, forwardVars,
                   registryVars, validatorVars>>

\* line 164: `logging` is not a name of the module (NameError)
LogPicked(t) ==
    /\ calls[t].pc = "picked"
    /\ calls' = [calls EXCEPT ![t] = [@ EXCEPT !.pc = "raised", !.error = "NameError"]]
    /\ UNCHANGED <<idle_gpus, static_id, stat, passVars, numericVars, forwardVars,
                   registryVars, validatorVars>>

\* tests/static_test.py, main: m = Stat() sets the class attribute to 1
StatInit ==
    /\ stat.pc = "main"
    /\ stat' = [pc |-> "loop", static_id |-> 1]
    /\ UNCHANGED <<idle_gpus, calls, static_id, passVars, numericVars, forwardVars,
                   registryVars, validatorVars>>

\* tests/static_test.py, Stat.run: the class attribute advances modulo 8
StatRun ==
    /\ stat.pc = "loop"
    /\ stat' = [stat EXCEPT !.static_id = (stat.static_id + 1) % STAT_POOL]
    /\ UNCHANGED <<idle_gpus, calls, static_id, passVars, numericVars, forwardVars,
                   registryVars, validatorVars>>

NextDevices ==
    \/ UsageChanges
    \/ \E t \in Threads : PickDevice(t)
    \/ \E t \in Threads : LogPicked(t)
    \/ StatInit
    \/ StatRun

SpecDevices == Init /\ [][NextDevices]_vars

(***************************************************************************)
(* ValidatorRegistry                                                       *)
(***************************************************************************)
\* Validator.is_available at time t, line 45
IsAvailable(v, t) == t >= v.available_at

\* get_available_validators at time t, lines 78-86
GetAvailableValidators(vs, t) == {u \in DOMAIN vs : IsAvailable(vs[u], t)}

\* update_failure that computes available_at from the timeout before the
\* failure
UpdateFailureOldTimeout(v, status_code, t) ==
    IF status_code = 200
    THEN [timeout |-> 1, available_at |-> t]
    ELSE [timeout |-> Min(v.timeout * TIMEOUT_FACTOR, TIMEOUT_CAP),
          available_at |-> t + v.timeout]

\* Validator.update_failure at time t, lines 33-39
UpdateFailure(v, status_code, t) ==
    IF status_code = 200
    THEN [timeout |-> 1, available_at |-> t]
    ELSE LET T == Min(v.timeout * TIMEOUT_FACTOR, TIMEOUT_CAP)
         IN [timeout |-> T, available_at |-> t + T]

\* update_failure has no return statement
UpdateFailureReturns(v, status_code) == "None"

\* time passes
Tick ==
    /\ now < MaxTime
    /\ now' = now + 1
    /\ chosen' = NoChoice
    /\ last_update' = NoUpdate
    /\ UNCHANGED <<validators, fails, responded_at, passVars, numericVars, forwardVars,
                   registryVars, deviceVars>>

\* update_validators(uid, response_code), lines 109-116
UpdateValidators ==
    /\ now <= MaxTime
    /\ \E uid \in Uids \cup {5}, code \in Codes :
         IF uid \in DOMAIN validators
         THEN /\ code # 200 => fails[uid] < MaxFails
              /\ validators' = [validators EXCEPT ![uid] = UpdateFailure(@, code, now)]
              /\ fails' = [fails EXCEPT ![uid] = IF code = 200 THEN 0 ELSE @ + 1]
              /\ responded_at' = [responded_at EXCEPT ![uid] = now]
              /\ last_update' = [uid |-> uid, code |-> code, at |-> now,
                                 before |-> validators[uid].timeout,
                                 after |-> validators'[uid].timeout,
                                 returned |-> UpdateFailureReturns(validators[uid], code)]
         ELSE /\ last_update' = [NoUpdate EXCEPT !.uid = uid, !.code = code, !.at = now]
              /\ UNCHANGED <<validators, fails, responded_at>>
    /\ chosen' = NoChoice
    /\ UNCHANGED <<now, passVars, numericVars, forwardVars, registryVars, deviceVars>>

RECURSIVE FailedPollsNoSleep(_, _, _)
RECURSIVE FailedPolls(_, _, _)
\* polls that follow each other without time.sleep(5)
FailedPollsNoSleep(vs, t, left) ==
    IF left = 0 \/ GetAvailableValidators(vs, t) # {} THEN 0
    ELSE 1 + FailedPollsNoSleep(vs, t, left - 1)

\* the polls of get_available_axons that find no validator, starting at time t:
\* each is followed by time.sleep(5)
FailedPolls(vs, t, left) ==
    IF left = 0 \/ GetAvailableValidators(vs, t) # {} THEN 0
    ELSE 1 + FailedPolls(vs, t + SLEEP, left - 1)

\* get_available_axons(k), lines 88-107: after max_retries failed polls (and
\* as many sleeps) validator_list is the empty list of the last poll; chosen.at
\* is the time of the last poll
GetAvailableAxons ==
    /\ now <= MaxTime
    /\ \E k \in 1..MaxK :
         LET n == FailedPolls(validators, now, max_retries)
         IN IF n = max_retries
            THEN /\ now' = now + SLEEP * n
                 /\ chosen' = [from |-> now, k |-> k, at |-> now + SLEEP * (n - 1),
                                polls |-> n, found |-> {}, axons |-> <<>>,
                                result |-> "None"]
            ELSE LET t == now + SLEEP * n
                     validator_list == GetAvailableValidators(validators, t)
                 IN /\ now' = t
                    /\ \E axons \in [1..k -> validator_list] :
                          chosen' = [from |-> now, k |-> k, at |-> t, polls |-> n + 1,
                                     found |-> validator_list, axons |-> axons,
                                     result |-> "axons"]
    /\ last_update' = NoUpdate
    /\ UNCHANGED <<validators, fails, responded_at, passVars, numericVars, forwardVars,
                   registryVars, deviceVars>>

NextValidators ==
    \/ Tick
    \/ UpdateValidators
    \/ GetAvailableAxons

SpecValidators == Init /\ [][NextValidators]_vars

(***************************************************************************)
(* forward(), lines 110-197                                                *)
(***************************************************************************)
\* where an iteration of the search can raise
Faults == {"none", "sample_hyperparameters", "Protein", "protein.forward"}

\* lines 111-121: a pass through `while True` begins; the structure chosen
\* for the round is identified by the round
BeginRound ==
    /\ fpc = "start"
    /\ round <= MaxRounds
    /\ fpc' = "loop"
    /\ iteration_num' = 0
    /\ UNCHANGED <<round, event, hps, sampled_combination, protein, logged, hist>>
    /\ UNCHANGED <<passVars, numericVars, registryVars, deviceVars, validatorVars>>

\* a search that goes on after a successful generation
AfterIterationNoBreak(status) ==
    IF iteration_num + 1 = TOTAL_COMBINATIONS THEN "after_loop" ELSE "loop"

\* where forward() is after an iteration that ended with the given status:
\* on success the loop is left by break, after the last combination it is
\* exhausted
AfterIteration(status) ==
    IF status = "True" \/ iteration_num + 1 = TOTAL_COMBINATIONS THEN "after_loop" ELSE "loop"

\* lines 123-183: one iteration of the search. The try block binds
\* sampled_combination, protein and hps up to the statement that raises; the
\* except handler formats sampled_combination and sets status False; the
\* finally block reads hps, and a name not yet bound raises UnboundLocalError
Iterate(fault) ==
    /\ fpc = "loop"
    /\ iteration_num < TOTAL_COMBINATIONS
    /\ LET me == <<round, iteration_num>>
           sc == IF fault = "sample_hyperparameters" THEN sampled_combination ELSE me
           pr == IF fault \in {"sample_hyperparameters", "Protein"} THEN protein ELSE me
           hp == IF fault \in {"sample_hyperparameters", "Protein"} THEN hps ELSE me
           handled == fault # "none" /\ sc # Unbound
           st == IF handled THEN "False" ELSE "unset"
       IN /\ sampled_combination' = sc
          /\ protein' = pr
          /\ hps' = hp
          /\ IF hp = Unbound
             THEN /\ event' = [status |-> st, hps |-> Unbound, pdb_id |-> round]
                  /\ fpc' = "raised"
                  /\ logged' = logged
                  /\ iteration_num' = iteration_num
                  /\ hist' = [hist EXCEPT !.tried = @ \cup {me}, !.failed = @ \cup {me},
                                          !.error = "UnboundLocalError"]
             ELSE IF st = "unset"
             THEN /\ event' = [status |-> "True", hps |-> hp, pdb_id |-> round]
                  /\ fpc' = AfterIteration("True")
                  /\ logged' = logged
                  /\ iteration_num' = iteration_num
                  /\ hist' = [hist EXCEPT !.tried = @ \cup {me},
                                          !.failed = IF fault = "none" THEN @ ELSE @ \cup {me},
                                          !.success = me]
             ELSE /\ event' = [status |-> "False", hps |-> hp, pdb_id |-> round]
                  /\ fpc' = AfterIteration("False")
                  /\ logged' = [by |-> me, event |-> event']
                  /\ iteration_num' = IF iteration_num + 1 = TOTAL_COMBINATIONS
                                      THEN iteration_num ELSE iteration_num + 1
                  /\ hist' = [hist EXCEPT !.tried = @ \cup {me}, !.failed = @ \cup {me}]
    /\ UNCHANGED round
    /\ UNCHANGED <<passVars, numericVars, registryVars, deviceVars, validatorVars>>

\* lines 185-197: with status False the round is skipped by continue;
\* otherwise run_step queries the miners with the protein and the event is
\* logged
AfterLoop ==
    /\ fpc = "after_loop"
    /\ IF event.status = "False"
       THEN /\ hist' = [hist EXCEPT !.skipped = @ \cup {round}, !.tried = {},
                                    !.failed = {}, !.success = Unbound]
            /\ logged' = logged
       ELSE /\ hist' = [hist EXCEPT !.queried = @ \cup {<<round, protein>>}, !.tried = {},
                                    !.failed = {}, !.success = Unbound]
            /\ logged' = [by |-> <<round, TOTAL_COMBINATIONS>>, event |-> event]
    /\ fpc' = "start"
    /\ round' = round + 1
    /\ UNCHANGED <<iteration_num, event, hps, sampled_combination, protein>>
    /\ UNCHANGED <<passVars, numericVars, registryVars, deviceVars, validatorVars>>

NextForward ==
    \/ BeginRound
    \/ \E fault \in Faults : Iterate(fault)
    \/ AfterLoop

SpecForward == Init /\ [][NextForward]_vars

(***************************************************************************)
(* check_gradient and compare_state_to_cpt called by themselves            *)
(***************************************************************************)
MaxSeries == 3

\* short series of any shape
SmallSeries == UNION { [1..n -> {0, 10, 25}] : n \in 0..MaxSeries }

\* series around the window: slope s per sample, and a jump j after sample 50
LongSeries ==
    { [i \in 1..n |-> b + s * i + (IF i > 50 THEN j ELSE 0)] :
        n \in {49, 50, 51, 60}, b \in {-3000, 100}, s \in {-20, 0, 9, 10, 11},
        j \in {0, 5000} }

\* series that are constant over the window
FlatSeries ==
    { [i \in 1..n |-> IF i <= 50 THEN v ELSE 9999] :
        n \in {1, 50, 60}, v \in {-100, 0, 94, 95, 100, 105, 106, 200} }

\* each behaviour observes one call of one of the two functions
CallCheckGradient ==
    /\ fn = NoFn
    /\ \E e \in SmallSeries \cup LongSeries :
         fn' = [op |-> "check_gradient", a |-> e, b |-> <<>>, result |-> CheckGradient(e)]
    /\ UNCHANGED <<passVars, registryVars, deviceVars, validatorVars, forwardVars>>

CallCompareStateToCpt ==
    /\ fn = NoFn
    /\ \E se \in SmallSeries \cup FlatSeries, ce \in SmallSeries \cup FlatSeries :
         fn' = [op |-> "compare_state_to_cpt", a |-> se, b |-> ce,
                result |-> CompareStateToCpt(se, ce)]
    /\ UNCHANGED <<passVars, registryVars, deviceVars, validatorVars, forwardVars>>

NextNumeric ==
    \/ CallCheckGradient
    \/ CallCompareStateToCpt

SpecNumeric == Init /\ [][NextNumeric]_vars

(***************************************************************************)
(* Properties                                                              *)
(***************************************************************************)
Done == pc = "done"
Returned == pc = "done" /\ outcome = "returned"
Last(s) == s[Len(s)]

\* the first position at which two sequences differ within their common length
Mismatches(v, m) == {i \in 1..Min(Len(v), Len(m)) : v[i] # m[i]}

\* the submission as such is rejectable, whatever path the pass took
InputRejected ==
    \/ IsEmptyOutput(sub)
    \/ sub.cpt < 0 /\ sub.old < 0
    \/ sub.log # "data"
    \/ Len(sub.steps) < MIN_LOGGING_ENTRIES
    \/ Len(sub.steps) >= 2 /\ sub.steps[2] - sub.steps[1] > 10
    \/ Mismatches(masses.validator, masses.miner) # {}
    \/ /\ Len(sub.steps) > 0 /\ sub.cpt >= 0
       /\ Last(sub.steps) - sub.cpt < MIN_SIMULATION_STEPS
       /\ (disk.old < 0 \/ Last(sub.steps) - disk.old < MIN_SIMULATION_STEPS)

\* C1: whenever a gate rejects the submission (empty submission, missing
\* checkpoint or log, too few log rows, insufficient progress, mass mismatch,
\* first log stride above 10, or a failed replay stage), _evaluate returns
\* exactly 0.
C1_RejectedScoresZero ==
    (Returned /\ (failed # "none" \/ ~run.valid \/ InputRejected)) => score2 = 0

C1_Witness ==
    Returned /\ failed = "state-checkpoint-mismatch" /\ score2 = 0 /\ engine.stepped > 0

C2_ZeroScoreWitness == Returned /\ run.valid /\ score2 = 0

\* m2 is twice a median of t: at least half of the samples lie on either side
\* of m2 / 2, and m2 is the sum of two samples
IsMedian2(t, m2) ==
    /\ 2 * Cardinality({i \in DOMAIN t : 2 * t[i] <= m2}) >= Len(t)
    /\ 2 * Cardinality({i \in DOMAIN t : 2 * t[i] >= m2}) >= Len(t)
    /\ \E i, j \in DOMAIN t :
         /\ t[i] + t[j] = m2
         /\ \A k \in DOMAIN t : ~(t[i] < t[k] /\ t[k] < t[j])

\* C3: the score of a passing submission is the median of the final 10 samples
\* of check_energies, the verifier's own checkpoint replay, whatever the
\* worker-reported energies are.
C3_ScoreIsReplayMedian ==
    (Returned /\ run.valid) =>
        /\ Len(check_energies) > 0
        /\ IsMedian2(Tail_(check_energies, SCORE_TAIL), score2)

C3_Witness ==
    /\ Returned /\ run.valid
    /\ Len(check_energies) > SCORE_TAIL
    /\ miner_energies # check_energies
    /\ ~IsMedian2(Tail_(miner_energies, SCORE_TAIL), score2)

\* the reason names of the interface, with the spellings the code uses
ReasonNames(stage) ==
    CASE stage = "reproduction-energies-identical" ->
            {"reproduction-energies-identical", "reprod-energies-identical"}
      [] stage = "checkpoint-gradient" -> {"checkpoint-gradient", "cpt-gradient"}
      [] stage = "state-checkpoint-mismatch" ->
            {"state-checkpoint-mismatch", "state-checkpoint"}
      [] OTHER -> {stage}

TenReasons ==
    {"missing-files", "insufficient-logging", "insufficient-progress", "mass-mismatch",
     "low-resolution-log", "state-gradient", "reproduction-energies-identical",
     "checkpoint-gradient", "state-checkpoint-mismatch", "anomaly"}

\* C4: a rejected pass carries a reject reason, the reason is one of the ten
\* named reasons and it is the one of the stage that failed.
C4_ReasonNamesStage ==
    (Returned /\ failed \in TenReasons) => run.result \in ReasonNames(failed)

\* C5: no error raised during a pass leaves _evaluate; every pass ends with a
\* returned score.
C5_NoErrorPropagates == Done => outcome = "returned"

StageOrder ==
    <<"intake", "freshness", "masses", "stride", "state_replay", "state_gradient",
      "cpt_replay", "identical", "cpt_gradient", "state_cpt", "anomaly", "save">>

GateStage(why) ==
    CASE why \in {"empty", "missing-files", "insufficient-logging"} -> "intake"
      [] why = "insufficient-progress" -> "freshness"
      [] why = "mass-mismatch" -> "masses"
      [] why = "low-resolution-log" -> "stride"
      [] why = "state-gradient" -> "state_gradient"
      [] why = "reproduction-energies-identical" -> "identical"
      [] why = "checkpoint-gradient" -> "cpt_gradient"
      [] why = "state-checkpoint-mismatch" -> "state_cpt"
      [] why = "anomaly" -> "anomaly"

\* C6: the stages run in order, a stage runs only after every earlier stage
\* passed, the first failing stage ends the pass, and the engine is stepped
\* only after intake, the freshness gate, the mass check and the stride check
\* have passed.
C6_StagesInOrder ==
    /\ Len(stages) <= Len(StageOrder)
    /\ stages = SubSeq(StageOrder, 1, Len(stages))
    /\ failed # "none" => (Done /\ score2 = 0)
    /\ failed \in (TenReasons \cup {"empty"}) => Last(stages) = GateStage(failed)
    /\ engine.stepped > 0 =>
         /\ {"cpt", "log"} \subseteq MdOutputsExts(sub)
         /\ Len(sub.steps) >= MIN_LOGGING_ENTRIES
         /\ cpt_step >= 0
         /\ log_step - cpt_step >= MIN_SIMULATION_STEPS
         /\ mass_report = -1
         /\ sub.steps[2] - sub.steps[1] <= 10

C6_Witness == Returned /\ failed = "anomaly" /\ engine.stepped > 0

\* check_masses has just returned (its locals are still in scope)
MassesChecked == masses # NoMasses

\* C7: check_masses returns true exactly when the two mass sequences are equal
\* element by element; a mismatch is reported at its first index and makes
\* _evaluate return 0.
C7_MassesEqualIff ==
    MassesChecked =>
        /\ (pc = "stride") <=> (masses.validator = masses.miner)
        /\ (pc # "stride") =>
             /\ Returned /\ score2 = 0 /\ failed = "mass-mismatch"
             /\ Mismatches(masses.validator, masses.miner) # {}
             /\ mass_report + 1 \in Mismatches(masses.validator, masses.miner)
             /\ \A i \in Mismatches(masses.validator, masses.miner) : mass_report + 1 <= i

\* some stride of the progress log is wider than 10 steps
HasWideStride(steps) == \E i \in 1..(Len(steps) - 1) : steps[i + 1] - steps[i] > 10

\* C8: a progress log with a stride above 10 anywhere is rejected with score 0;
\* a log whose strides are all at most 10 is not rejected by the stride gate.
C8_WideStrideRejected ==
    /\ (Returned /\ HasWideStride(sub.steps)) => (~run.valid /\ score2 = 0)
    /\ (Len(sub.steps) >= 2 /\ ~HasWideStride(sub.steps)) => failed # "low-resolution-log"

\* C9: a constant checkpoint-replay energy series ends the pass as a rejection
\* whose reason is reproduction-energies-identical.
C9_ConstantReplayReason ==
    (Done /\ Len(check_energies) > 0 /\ Unique(check_energies) = 1) =>
        /\ outcome = "returned" /\ ~run.valid /\ score2 = 0
        /\ run.result \in ReasonNames("reproduction-energies-identical")

FreshnessReached == Len(stages) >= 2 /\ stages[2] = "freshness"

Lag(step) == Last(sub.steps) - step

\* C10: the freshness gate passes on the submitted checkpoint when its lag is at
\* least MIN_SIMULATION_STEPS; otherwise it passes only on an old checkpoint of
\* the data directory whose lag is at least MIN_SIMULATION_STEPS; otherwise the
\* submission is rejected with score 0 (for insufficient progress, or because
\* the old checkpoint could not be loaded).  The old checkpoint is loaded at
\* most once.
C10_FreshnessGate ==
    FreshnessReached =>
        /\ engine.oldLoads <= 1
        /\ Lag(disk.cpt) >= MIN_SIMULATION_STEPS =>
             /\ failed # "insufficient-progress"
             /\ engine.oldLoads = 0
             /\ failed = "none" => (checkpoint_path = "cpt" /\ cpt_step = disk.cpt)
        /\ (Lag(disk.cpt) < MIN_SIMULATION_STEPS /\ disk.old >= 0
               /\ Lag(disk.old) >= MIN_SIMULATION_STEPS) =>
             /\ failed # "insufficient-progress"
             /\ failed = "none" => (checkpoint_path = "old" /\ cpt_step = disk.old
                                      /\ engine.oldLoads = 1)
        /\ (Lag(disk.cpt) < MIN_SIMULATION_STEPS
               /\ (disk.old = Absent \/ (disk.old >= 0
                                           /\ Lag(disk.old) < MIN_SIMULATION_STEPS))) =>
             /\ Returned /\ score2 = 0 /\ cpt_step = Absent
             /\ failed \in {"insufficient-progress", "error"}
             /\ disk.old = Absent => failed = "insufficient-progress"
        /\ (disk.cpt = 900 /\ Last(sub.steps) = 1000) => failed # "insufficient-progress"
        /\ (disk.cpt = 980 /\ Last(sub.steps) = 1000 /\ disk.old = Absent) =>
             failed = "insufficient-progress"

C10_Witness ==
    /\ FreshnessReached /\ pc = "masses"
    /\ checkpoint_path = "old" /\ engine.oldLoads = 1
    /\ Lag(disk.cpt) < MIN_SIMULATION_STEPS

\* the submission lacks a non-empty checkpoint file or a non-empty progress log
LacksRequired(d) == (d.cpt < 0 /\ d.old < 0) \/ d.log # "data"

StageRan(name) == \E i \in DOMAIN stages : stages[i] = name

\* C12 as stated: when the state replay runs, the saved-state file of the
\* worker is still in miner_data_directory as the worker submitted it.
C12_Original == (StageRan("state_replay") /\ sub.xml = "data") => disk.xml = "miner"

\* C12 amended: once process_md_output has passed, the state file of
\* miner_data_directory is the one the validator saved from the engine handle
\* after loading the checkpoint that passed the freshness gate, whether or
\* not the worker had submitted a state file; the state replay loads that
\* file and starts at cpt_step.
C12_StateFileFromCheckpoint ==
    /\ StageRan("masses") => disk.xml = "validator"
    /\ pc = "state_gradient" =>
          /\ simulation.loaded = "xml"
          /\ simulation.currentStep = cpt_step + 10 * Len(state_energies)
          /\ cpt_step = disk[checkpoint_path]

C12_Witness ==
    /\ pc = "state_gradient" /\ sub.xml = "data" /\ disk.xml = "validator"
    /\ simulation.loaded = "xml" /\ Len(state_energies) > 0

\* C15: the folded structure is in miner_data_directory exactly when the pass
\* has ended valid, it is written by the last stage only, after every replay
\* stage has passed, and a pass that ends rejected hands back empty
\* trajectories.
C15_FoldedIffValid ==
    /\ disk.folded = "validator" <=> (Returned /\ run.valid)
    /\ disk.folded = "validator" =>
          /\ Last(stages) = "save"
          /\ \A g \in {"state_replay", "state_gradient", "cpt_replay", "identical",
                        "cpt_gradient", "state_cpt", "anomaly"} : StageRan(g)
    /\ (Done /\ ~run.valid) => (run.checked = <<>> /\ run.miner = <<>>)

C15_Witness ==
    /\ Returned /\ ~run.valid /\ failed = "anomaly" /\ disk.folded = "absent"
    /\ check_energies # <<>> /\ run.checked = <<>>

C15_ValidWitness == Returned /\ run.valid /\ disk.folded = "validator"

\* the pass is the second one and has taken in the artifacts of the first
Resubmitted == pass > 1 /\ pc # "start" /\ sub = prev.sub

\* C13: verifying the same artifacts a second time, with an engine that
\* answers as it did the first time, ends as the first pass did (returned or
\* raised, valid or not, same reason, same score), although the first pass
\* has left its files in miner_data_directory.
C13_SecondPassSame ==
    (Resubmitted /\ Done) =>
        /\ outcome = prev.outcome
        /\ run = prev.run
        /\ failed = prev.failed
        /\ score2 = prev.score2

C13_Witness ==
    /\ Resubmitted /\ Done /\ run.valid /\ prev.run.valid /\ score2 = prev.score2
    /\ disk.cfg = "validator" /\ disk.folded = "validator"

C13_RejectedWitness ==
    /\ Resubmitted /\ Done /\ failed = "anomaly" /\ prev.failed = "anomaly"
    /\ disk.check_log = "validator"

\* C14: a pass never takes its checkpoint from an old-checkpoint file that
\* its own submission did not contain; a submission without one whose
\* checkpoint lags the log by fewer than MIN_SIMULATION_STEPS steps is
\* rejected, whatever was verified before it.
C14_NoLeftoverFallback ==
    /\ checkpoint_path = "old" => sub.old # Absent
    /\ (Done /\ sub.old = Absent /\ sub.cpt >= 0 /\ Len(sub.steps) >= MIN_LOGGING_ENTRIES
           /\ Last(sub.steps) - sub.cpt < MIN_SIMULATION_STEPS) => failed # "none"

\* the second pass verifies a submission without an old checkpoint after a
\* first pass that had one, and ends valid on the file the first pass left
C14_LeftoverUsed ==
    /\ pass = 2 /\ Done /\ sub.old = Absent /\ prev.sub.old = 950
    /\ checkpoint_path = "old" /\ disk.old = 950 /\ run.valid

C16_Names == <<"SyntheticMDReward", "OrganicMDReward", "SyntheticMLReward", "OrganicMLReward">>

\* C16: EvaluationRegistry() ends constructed with tasks holding the four
\* names SyntheticMDReward, OrganicMDReward, SyntheticMLReward,
\* OrganicMLReward in this order, and a stub evaluator returns 0 for every
\* submission.
C16_RegistryConstructed ==
    /\ constructed # "new" => (constructed = "constructed" /\ tasks = C16_Names)
    /\ stub.pipe # "none" => stub.score2 = 0

\* C17: two calls of create_simulation that are in progress at the same time
\* never hold the same device index.
C17_DistinctDevices ==
    \A t, u \in Threads :
        (t # u /\ calls[t].pc = "picked" /\ calls[u].pc = "picked")
           => calls[t].deviceIndex # calls[u].deviceIndex

\* a call that finds no idle device is given an index of the pool
FallbackFromPool == \A t \in Threads : calls[t].error # "UnboundLocalError"

\* a call of create_simulation gets past the selection of its device
SelectionCompletes == \A t \in Threads : calls[t].error # "NameError"

\* C18: a failed response doubles the timeout up to the cap of 86400, a
\* response with status 200 sets it to 1, and every timeout stays within
\* 1..86400.
C18_TimeoutDoubles ==
    /\ \A u \in DOMAIN validators :
          validators[u].timeout >= 1 /\ validators[u].timeout <= 86400
    /\ (last_update.uid \in DOMAIN validators /\ last_update.code = 200)
          => last_update.after = 1
    /\ (last_update.uid \in DOMAIN validators /\ last_update.code # 200)
          => last_update.after = Min(2 * last_update.before, 86400)

\* the cooldown of validator u is over at time t: its last response was a
\* success (or it never responded), or it failed at responded_at[u] and the
\* timeout that resulted has passed
CooldownOver(u, t) == fails[u] = 0 \/ t >= responded_at[u] + validators[u].timeout

\* C19: get_available_validators returns exactly the validators whose
\* cooldown is over: a validator that failed at time t with resulting
\* timeout T is not returned before t + T and is returned from t + T on, one
\* whose last response was a success is returned at once; and every uid
\* get_available_axons returns has its cooldown over at the time of the
\* poll.
C19_NoSelectionInCooldown ==
    /\ \A u \in DOMAIN validators :
          u \in GetAvailableValidators(validators, now) <=> CooldownOver(u, now)
    /\ chosen.result = "axons" =>
          \A i \in DOMAIN chosen.axons : CooldownOver(chosen.axons[i], chosen.at)
    /\ chosen.result = "None" => \A u \in DOMAIN validators : ~CooldownOver(u, chosen.at)

\* a validator failed at time 1 with resulting timeout 4 and is selected at
\* time 5, the first moment after its cooldown, while the other still cools
C19_Witness ==
    /\ chosen.result = "axons" /\ chosen.at = 5 /\ chosen.found = {3}
    /\ fails[3] = 1 /\ responded_at[3] = 1 /\ validators[3].timeout = 4
    /\ validators[3].available_at = 5
    /\ fails[8] > 0 /\ ~CooldownOver(8, now)

\* C20: update_failure returns 1 or 0, and a validator with MaxFails
\* consecutive failed responses is no longer a key of validators.
C20_RemovedAfterFailures ==
    /\ last_update.returned # "nocall" => last_update.returned \in {"0", "1"}
    /\ \A u \in Uids : fails[u] >= MaxFails => u \notin DOMAIN validators

\* the log rows of the submission with a step in (from, to]
LogWindow(from, to) ==
    {i \in DOMAIN sub.steps : sub.steps[i] > from /\ sub.steps[i] <= to}

\* C21: once process_md_output has passed, cpt_step is the step of the
\* checkpoint file that checkpoint_path names and lags log_step by at least
\* MIN_SIMULATION_STEPS; when the old checkpoint was loaded it is that file.
\* The state replay starts at cpt_step, the checkpoint replay loads the file
\* checkpoint_path names, and the step budget and the window of worker
\* energies are those of that checkpoint's step.
C21_GateCheckpointUsed ==
    /\ StageRan("masses") =>
          /\ checkpoint_path \in {"cpt", "old"}
          /\ cpt_step = disk[checkpoint_path]
          /\ log_step = Last(sub.steps)
          /\ log_step - cpt_step >= MIN_SIMULATION_STEPS
          /\ engine.oldLoads = 1 <=> checkpoint_path = "old"
    /\ pc = "state_gradient" =>
          simulation.currentStep - 10 * Len(state_energies) = disk[checkpoint_path]
    /\ pc = "identical" =>
          LET from   == disk[checkpoint_path]
              budget == Min(MAX_SIMULATION_STEPS_FOR_EVALUATION, Last(sub.steps) - from)
          IN /\ simulation.loaded = checkpoint_path
             /\ simulation.currentStep = from + budget
             /\ Len(miner_energies) = Cardinality(LogWindow(from, from + budget))
             /\ \A k \in DOMAIN miner_energies :
                   \E i \in LogWindow(from, from + budget) : miner_energies[k] = sub.energies[i]

C21_Witness ==
    /\ pc = "identical" /\ checkpoint_path = "old" /\ engine.oldLoads = 1
    /\ sub.cpt = 980 /\ disk.old = 950 /\ cpt_step = 950
    /\ simulation.loaded = "old" /\ simulation.currentStep = 1000
    /\ Len(miner_energies) = 5

\* min(MAX_SIMULATION_STEPS_FOR_EVALUATION, log_step - cpt_step) of the pass
Budget == Min(MAX_SIMULATION_STEPS_FOR_EVALUATION, log_step - cpt_step)

C22_ShortStateReplay ==
    /\ pc = "identical" /\ cpt_step = 895 /\ Budget = 105
    /\ Len(state_energies) = 10 /\ engine.stepped = 205 /\ Len(check_energies) = 11

\* the stages of the pass that have run form a sequence without repetition
OneStageAtATime ==
    /\ \A i, j \in DOMAIN stages : stages[i] = stages[j] => i = j
    /\ pc \notin {"start", "done"} => ~StageRan(pc)

\* C23: the state replay and the checkpoint replay each run on an engine
\* constructed in their own stage (the second and the third engine of the
\* pass); the engine of the checkpoint replay has advanced only by the steps
\* of that replay, starting at the step of its checkpoint; and the stages of
\* a pass run one after the other.
C23_FreshEnginePerReplay ==
    /\ OneStageAtATime
    /\ StageRan("masses") => engine.created >= 1
    /\ pc = "state_gradient" =>
          /\ engine.created = 2
          /\ engine.stepped = 10 * Len(state_energies)
          /\ simulation.loaded = "xml"
    /\ pc = "cpt_replay" => engine.created = 2
    /\ pc = "identical" =>
          /\ engine.created = 3
          /\ simulation.loaded = checkpoint_path
          /\ simulation.currentStep - disk[checkpoint_path]
                = engine.stepped - 10 * Len(state_energies)

C23_Witness ==
    /\ pc = "identical" /\ engine.created = 3 /\ Len(state_energies) = 12
    /\ engine.stepped = 240 /\ simulation.currentStep = cpt_step + 120

\* the steps of the worker rows that the anomaly test takes, in order
MinerSteps ==
    LET c    == disk[checkpoint_path]
        rows == SetToSeq(LogWindow(c, c + Budget))
    IN [k \in DOMAIN rows |-> sub.steps[rows[k]]]

\* the steps of the rows of the check log, in order
CheckSteps == SetToSeq(ReportSteps(disk[checkpoint_path], Budget))

\* the median of |replay - worker| / |worker| * 100 over the samples, taken
\* pairwise, exceeds the anomaly threshold
MedianDiffExceeds ==
    MedianExceeds([k \in DOMAIN check_energies |->
                      PercentDiff(check_energies[k], miner_energies[k])], ANOMALY_THRESHOLD)

\* C24: when the anomaly test has run, the k-th replay sample and the k-th
\* worker sample are those of the same integration step, for every k, and
\* the pass is rejected at this test exactly when the median of the absolute
\* percent differences of these pairs exceeds ANOMALY_THRESHOLD.
C24_AnomalyComparesSameSteps ==
    StageRan("anomaly") =>
        /\ MinerSteps = CheckSteps
        /\ Len(miner_energies) = Len(check_energies)
        /\ (Last(stages) = "anomaly" /\ Done) <=> MedianDiffExceeds

\* worker rows of steps 905..995 are compared with replay rows of steps
\* 900..990, and the pass ends valid
C24_ShiftedCompared ==
    /\ Returned /\ run.valid /\ cpt_step = 895 /\ sub.steps[2] = 15
    /\ Len(miner_energies) = 10 /\ Len(check_energies) = 10
    /\ MinerSteps[1] = 905 /\ CheckSteps[1] = 900

\* a log with a gap after its first stride: 10 worker rows against 11 replay
\* rows, and the pass ends on the error of the subtraction
C24_LengthsDiffer ==
    /\ Returned /\ Last(stages) = "anomaly" /\ failed = "error"
    /\ Len(miner_energies) # Len(check_energies)

\* C25: check_gradient passes a series exactly when it has at least 2
\* samples and, with k = min(50, length), e[k] - e[1] <= 10 * (k - 1), that
\* is when the mean of the consecutive differences of its first 50 samples
\* does not exceed 10; a non-positive or large negative drift passes, and a
\* series with fewer than 2 samples does not.
C25_GradientRejectsAboveTen ==
    fn.op = "check_gradient" =>
        LET e == fn.a
            k == IF Len(e) < 50 THEN Len(e) ELSE 50
        IN /\ fn.result <=> (k >= 2 /\ e[k] - e[1] <= 10 * (k - 1))
           /\ (k >= 2 /\ e[k] <= e[1]) => fn.result
           /\ k < 2 => ~fn.result

\* a series that climbs by exactly 10 per sample over its first 50 samples
\* and jumps by 5000 after them passes
C25_Witness ==
    /\ fn.op = "check_gradient" /\ Len(fn.a) = 60 /\ fn.result
    /\ fn.a[50] - fn.a[1] = 490 /\ fn.a[51] - fn.a[50] > 5000

C25_ShortWitness == fn.op = "check_gradient" /\ Len(fn.a) = 1 /\ ~fn.result

Flat(v) == [i \in 1..50 |-> v]

\* C26: compare_state_to_cpt fails exactly when 100 * |ms - mc| > 5 * |mc|
\* for the medians ms and mc of the first 50 state and checkpoint energies:
\* [100]*50 against [100]*50 passes, [100]*50 against [200]*50 fails, and a
\* difference of exactly 5 percent ([105]*50 against [100]*50) passes.
C26_FailsAboveThreshold ==
    (fn.op = "compare_state_to_cpt" /\ fn.a # <<>> /\ fn.b # <<>>) =>
        LET ms2 == Median2(Head_(fn.a, 50))
            mc2 == Median2(Head_(fn.b, 50))
        IN /\ ~fn.result <=> 100 * Abs(ms2 - mc2) > 5 * Abs(mc2)
           /\ (fn.a = Flat(100) /\ fn.b = Flat(100)) => fn.result
           /\ (fn.a = Flat(100) /\ fn.b = Flat(200)) => ~fn.result
           /\ (fn.a = Flat(105) /\ fn.b = Flat(100)) => fn.result
           /\ (fn.a = Flat(106) /\ fn.b = Flat(100)) => ~fn.result

C26_Witness ==
    fn.op = "compare_state_to_cpt" /\ fn.a = Flat(105) /\ fn.b = Flat(100) /\ fn.result

C26_FailWitness ==
    fn.op = "compare_state_to_cpt" /\ fn.a = Flat(100) /\ fn.b = Flat(200) /\ ~fn.result

\* a call of create_simulation by thread t selects its device in this step
\* while no device is idle
FallbackSelection(t) ==
    calls[t].pc = "idle" /\ calls'[t].pc # "idle" /\ idle_gpus = {}

\* C27: static_id stays within 0..3 (within 0..7 in the Stat test class); a
\* selection that finds no idle device returns the current value of
\* static_id and advances it by one modulo 4, and Stat.run advances its
\* counter by one modulo 8.
C27_FallbackRoundRobin ==
    [][/\ static_id \in 0..(POOL - 1) /\ stat.static_id \in 0..(STAT_POOL - 1)
       /\ \A t \in Threads :
             FallbackSelection(t) =>
                 /\ calls'[t].deviceIndex = static_id
                 /\ static_id' = (static_id + 1) % POOL
       /\ (stat.pc = "loop" /\ stat' # stat) =>
             stat'.static_id = (stat.static_id + 1) % STAT_POOL]_vars

\* the counter of the Stat test class cycles through its pool
C27_StatCycles ==
    [][/\ stat.static_id \in 0..(STAT_POOL - 1)
       /\ (stat.pc = "loop" /\ stat' # stat) =>
             stat'.static_id = (stat.static_id + 1) % STAT_POOL]_vars

\* a fallback selection hands out an index and advances the shared counter
C27_FallbackAdvances ==
    [][\A t \in Threads : FallbackSelection(t) =>
           (calls'[t].deviceIndex \in 0..(POOL - 1) /\ static_id' # static_id)]_vars

\* the time of poll number i of the call of get_available_axons just made
PollTime(i) == chosen.from + SLEEP * (i - 1)

\* what the call of get_available_axons just made polled and returned
PollsUntilAvailable ==
    chosen.result # "nocall" =>
        /\ chosen.polls \in 1..4
        /\ chosen.at = PollTime(chosen.polls)
        /\ \A i \in 1..(chosen.polls - 1) :
              GetAvailableValidators(validators, PollTime(i)) = {}
        /\ chosen.found = GetAvailableValidators(validators, chosen.at)
        /\ chosen.result = "None" <=>
              \A i \in 1..4 : GetAvailableValidators(validators, PollTime(i)) = {}
        /\ chosen.result = "None" => chosen.polls = 4
        /\ chosen.result # "None" =>
              /\ chosen.result = "axons" /\ chosen.found # {}
              /\ Len(chosen.axons) = chosen.k
              /\ \A i \in 1..chosen.k : chosen.axons[i] \in chosen.found

C28_NoneWitness ==
    /\ chosen.result = "None" /\ chosen.polls = 4 /\ now = chosen.from + 20
    /\ GetAvailableValidators(validators, now) # {}

\* the iterations 0..n-1 of the current round
Iterations(n) == {<<round, i>> : i \in 0..(n - 1)}

\* the search of the current round so far: at most TOTAL_COMBINATIONS
\* combinations, tried in order, all failed but the one that succeeded, and
\* nothing tried after a success
SearchStopsAtFirstSuccess ==
    /\ Cardinality(hist.tried) <= TOTAL_COMBINATIONS
    /\ hist.tried = Iterations(Cardinality(hist.tried))
    /\ IF hist.success = Unbound
       THEN hist.failed = hist.tried
       ELSE /\ hist.failed = hist.tried \ {hist.success}
            /\ hist.success = <<round, Cardinality(hist.tried) - 1>>
            /\ fpc # "loop"

\* C29: a round tries at most TOTAL_COMBINATIONS combinations and stops
\* at the first success; run_step is called only with the protein of a
\* successful generation of the same round; and when every combination has
\* failed the round is skipped without a call of run_step and the next round
\* begins.
C29_SearchThenQuery ==
    /\ []SearchStopsAtFirstSuccess
    /\ [][/\ hist'.queried # hist.queried =>
                /\ hist.success # Unbound
                /\ hist'.queried = hist.queried \cup {<<round, hist.success>>}
          /\ (fpc = "after_loop" /\ hist.failed = Iterations(TOTAL_COMBINATIONS)) =>
                /\ hist'.queried = hist.queried
                /\ hist'.skipped = hist.skipped \cup {round}
                /\ fpc' = "start" /\ round' = round + 1
          /\ hist'.skipped # hist.skipped =>
                hist.failed = Iterations(TOTAL_COMBINATIONS)]_vars

\* the first round succeeded at its third combination and queried the
\* miners; the second round failed three times and was skipped
C29_Witness ==
    /\ hist.queried = {<<1, <<1, 2>>>>}
    /\ hist.skipped = {2}
    /\ round = 3 /\ fpc = "start"

\* an iteration of the search fails in this step
IterationFails ==
    fpc = "loop" /\ hist'.failed # hist.failed

\* C30: a failing iteration never ends forward(): it leaves the event
\* with status False and the hyperparameters of this iteration, logs this
\* event, and the search goes on with the next combination (or is over
\* after the last one).
C30_FailureStaysInLoop ==
    [][IterationFails =>
          /\ fpc' # "raised"
          /\ event'.status = "False"
          /\ event'.hps = <<round, iteration_num>>
          /\ logged' = [by |-> <<round, iteration_num>>, event |-> event']
          /\ IF iteration_num + 1 < TOTAL_COMBINATIONS
             THEN fpc' = "loop" /\ iteration_num' = iteration_num + 1
             ELSE fpc' = "after_loop"]_vars

\* no UnboundLocalError leaves forward()
C30_NeverEscapes == fpc # "raised"

\* the event of a failed iteration never carries the hyperparameters of
\* another iteration
C30_OwnHyperparameters ==
    (logged.event.status = "False" /\ logged.by # Unbound) => logged.event.hps = logged.by

\* a failure of protein.forward is recorded with the iteration's own
\* hyperparameters
C30_ForwardFailureRecorded ==
    /\ logged.event.status = "False" /\ logged.by = <<1, 0>>
    /\ logged.event.hps = <<1, 0>> /\ fpc = "loop" /\ iteration_num = 1
====
